---------------------------- MODULE Spec2Model ----------------------------
(***************************************************************************)
(* State-machine model of src/unlock-bootloader.mjs (class Bruteforce).    *)
(*                                                                         *)
(* JavaScript runs the code between two awaits without interruption, so    *)
(* one action of the model is the code from one await to the next: the     *)
(* return (or failure) of the device command that is in flight, followed   *)
(* by everything the handler does until it issues the next command or      *)
(* ends.  A signal can only be delivered while a command is in flight.     *)
(*                                                                         *)
(* Numbers.  A JavaScript number is modelled as a record: NaN, null (the   *)
(* absent result of getLastSavedState) or a finite value counted in half   *)
(* units (field h; h = 2n is the integer n).  Half units are the coarsest  *)
(* grid on which Math.round is exact: floor(y + 1/2) only depends on       *)
(* floor(2y).  Candidate codes are counted from CodeUnit instead of        *)
(* 10^15, TLC's integers having 32 bits; the ceiling stays ten times the   *)
(* default starting code, and the step keeps the source's multiplier.      *)
(*                                                                         *)
(* Text.  File contents and the strings built by nextCode are sequences    *)
(* of one-character strings; String(), padStart() and Number() are         *)
(* computed on them.                                                       *)
(***************************************************************************)
EXTENDS Integers, Sequences, FiniteSets, TLC

(***************************************************************************)
(* Bounds of the model.                                                    *)
(***************************************************************************)
\* the default starting code, 10^15 in the source, in the model's scale
CodeUnit == 1000
\* device identities are 1..MaxImei
MaxImei == 2
\* the reboot and checkpoint intervals are 0 (disabled) or 1..MaxInterval
MaxInterval == 2
\* attempts issued in one run (a run whose code is NaN never ends by itself)
MaxAttempts == 11
\* runs of the script, one after the other, on the same files
MaxRuns == 2
\* signals delivered to the installed handler in one run
MaxSignals == 1

(***************************************************************************)
(* Program constants.                                                      *)
(***************************************************************************)
\* Math.sqrt(imei) * 1024
Multiplier == 1024
\* padStart(16, "0")
PadWidth == 16
\* currentCode = 1000000000000000
DefaultCode == CodeUnit
\* this.currentCode >= 10000000000000000
Ceiling == 10 * CodeUnit

(***************************************************************************)
(* JavaScript numbers.                                                     *)
(***************************************************************************)
NaN == [kind |-> "nan", h |-> 0]
Null == [kind |-> "null", h |-> 0]
Num(h) == [kind |-> "num", h |-> h]
Whole(n) == Num(2 * n)
IsNum(x) == x.kind = "num"

\* x + y on numbers: NaN is contagious
Add(x, y) == IF IsNum(x) /\ IsNum(y) THEN Num(x.h + y.h) ELSE NaN
\* x <= y and x >= y: false as soon as one side is NaN
Leq(x, y) == IsNum(x) /\ IsNum(y) /\ x.h <= y.h
Geq(x, y) == IsNum(x) /\ IsNum(y) /\ x.h >= y.h
\* Math.round: to the nearest integer, halves upwards
MathRound(x) == IF IsNum(x) THEN Whole((x.h + 1) \div 2) ELSE x

RECURSIVE SqrtSearch(_, _, _)
\* the largest r in lo..hi with r * r <= x, by bisection
SqrtSearch(x, lo, hi) ==
  IF lo >= hi THEN lo
  ELSE LET mid == (lo + hi + 1) \div 2
       IN  IF mid * mid <= x THEN SqrtSearch(x, mid, hi)
           ELSE SqrtSearch(x, lo, mid - 1)

\* (2 * 1024 * q + b)^2 <= 4 * 1024^2 * id, for q the whole part of sqrt(id)
\* and b < 2 * 1024, on numbers that stay within 32 bits
StepFits(id, q, b) ==
  Multiplier * (id - q * q) - q * b >= (b * b + 4 * Multiplier - 1) \div (4 * Multiplier)

RECURSIVE FractionSearch(_, _, _, _)
\* the largest b in lo..hi with StepFits(id, q, b), by bisection
FractionSearch(id, q, lo, hi) ==
  IF lo >= hi THEN lo
  ELSE LET mid == (lo + hi + 1) \div 2
       IN  IF StepFits(id, q, mid) THEN FractionSearch(id, q, mid, hi)
           ELSE FractionSearch(id, q, lo, mid - 1)

\* Math.sqrt(imei) * 1024, in half units: floor(2 * 1024 * sqrt(imei)); the
\* whole part of the root is searched up to 46340, the last root whose square
\* has 32 bits
Step(id) ==
  LET q == SqrtSearch(id, 0, IF id < 46340 THEN id ELSE 46340)
  IN  Num(2 * Multiplier * q + FractionSearch(id, q, 0, 2 * Multiplier - 1))

(***************************************************************************)
(* Text.                                                                   *)
(***************************************************************************)
DigitChars == <<"0", "1", "2", "3", "4", "5", "6", "7", "8", "9">>
DigitSet == {DigitChars[i] : i \in 1..10}
DigitValue(c) == (CHOOSE i \in 1..10 : DigitChars[i] = c) - 1

RECURSIVE Digits(_)
\* the decimal digits of a natural number
Digits(n) ==
  IF n < 10 THEN <<DigitChars[n + 1]>>
  ELSE Digits(n \div 10) \o <<DigitChars[(n % 10) + 1]>>

\* String(x)
JSString(x) ==
  IF ~IsNum(x) THEN (IF x.kind = "nan" THEN <<"N", "a", "N">> ELSE <<"n", "u", "l", "l">>)
  ELSE LET a == IF x.h < 0 THEN 0 - x.h ELSE x.h
           body == Digits(a \div 2) \o (IF a % 2 = 1 THEN <<".", "5">> ELSE <<>>)
       IN  IF x.h < 0 THEN <<"-">> \o body ELSE body

RECURSIVE PadStart(_, _, _)
\* s.padStart(n, c)
PadStart(s, n, c) == IF Len(s) >= n THEN s ELSE PadStart(<<c>> \o s, n, c)

RECURSIVE TrimLeft(_)
TrimLeft(s) == IF s # <<>> /\ Head(s) = " " THEN TrimLeft(Tail(s)) ELSE s
RECURSIVE TrimRight(_)
TrimRight(s) ==
  IF s # <<>> /\ s[Len(s)] = " " THEN TrimRight(SubSeq(s, 1, Len(s) - 1)) ELSE s
\* s.trim()
Trim(s) == TrimRight(TrimLeft(s))

RECURSIVE DigitsValue(_)
\* the value of a sequence of digits, leading zeros allowed
DigitsValue(s) ==
  IF s = <<>> THEN 0
  ELSE 10 * DigitsValue(SubSeq(s, 1, Len(s) - 1)) + DigitValue(s[Len(s)])

AllDigits(s) == \A i \in 1..Len(s) : s[i] \in DigitSet

\* Number(s), the string-to-number conversion: blanks are trimmed, the empty
\* string is 0, a decimal literal with an optional sign and fraction is its
\* value (cut to a half unit), anything else is NaN
JSNumber(s) ==
  LET t == Trim(s)
      neg == t # <<>> /\ Head(t) = "-"
      u == IF t # <<>> /\ Head(t) \in {"-", "+"} THEN Tail(t) ELSE t
      dots == {i \in 1..Len(u) : u[i] = "."}
      dot == IF dots = {} THEN Len(u) + 1 ELSE CHOOSE i \in dots : \A j \in dots : i <= j
      ip == SubSeq(u, 1, dot - 1)
      fp == SubSeq(u, dot + 1, Len(u))
      half == IF fp # <<>> /\ DigitValue(fp[1]) >= 5 THEN 1 ELSE 0
      mag == 2 * DigitsValue(ip) + half
  IN  IF t = <<>> THEN Num(0)
      ELSE IF AllDigits(ip) /\ AllDigits(fp) /\ (ip # <<>> \/ fp # <<>>)
           THEN Num(IF neg THEN 0 - mag ELSE mag)
           ELSE NaN

(***************************************************************************)
(* Files.                                                                  *)
(***************************************************************************)
Absent == [exists |-> FALSE, text |-> <<>>]
File(t) == [exists |-> TRUE, text |-> t]

\* what saved_state_<imei>.txt may hold when the script is first launched
InitialSavedStates ==
  {Absent, File(<<>>), File(<<"a", "b", "c">>), File(<<"-", "5">>), File(<<" ">>),
   File(<<"0">>), File(<<"7">>)}

(***************************************************************************)
(* The device tool's output, by the known fragments it contains.           *)
(***************************************************************************)
Fragments == {"commandInvalid", "oemUnlockFail", "oemUnlockSuccess"}
Outputs == SUBSET Fragments

VARIABLES
  \* config.json
  imei, autorebootAfter, saveStateAfter, throwOnUnknownErrors,
  \* the fields of Bruteforce
  attempt, currentCode, lastSavedAttempt, lastRebootAttempt,
  \* saved_state_<imei>.txt and code_<imei>.txt
  savedStateFile, codeFile,
  \* where the script is, which rebootDevice() call is running, whether the
  \* signal handlers are registered, and what ended the run
  pc, phase, handlersInstalled, cause,
  \* history of the current run
  runs, startFile, loaded, candidateChosen, firstAttempt, attemptsIssued,
  attemptedCode, completed, lastOutput, lastResult, rejected, onlyFailures,
  sinceReboot, periodicReboots, checkpointWrites, lastCheckpoint, resultWrites,
  overCeiling, signalsHandled,
  \* the device commands in flight, and how many reboot and wait commands of
  \* the current run have returned
  outstanding, rebootsReturned, waitsReturned,
  \* the identity of another device, and the code nextCode gives that device
  \* from the code it gave this one
  peerImei, peerCode

config == <<imei, autorebootAfter, saveStateAfter, throwOnUnknownErrors>>
fields == <<attempt, currentCode, lastSavedAttempt, lastRebootAttempt>>
files == <<savedStateFile, codeFile>>
control == <<pc, phase, handlersInstalled, cause>>
startHistory == <<runs, startFile, loaded>>
attemptHistory == <<completed, lastOutput, lastResult, rejected, onlyFailures>>
issueHistory == <<attemptsIssued, attemptedCode>>
history == <<startHistory, candidateChosen, firstAttempt, issueHistory,
             attemptHistory, sinceReboot, periodicReboots, checkpointWrites,
             lastCheckpoint, resultWrites, overCeiling, signalsHandled>>
deviceHistory == <<rebootsReturned, waitsReturned>>
peer == <<peerImei, peerCode>>
vars == <<config, fields, files, control, history, outstanding, deviceHistory, peer>>

InFlight == {"reboot", "wait", "attempt"}
Terminal == {"succeeded", "exhausted", "fatal", "killed", "exited"}
NoOutput == {"none"}

(***************************************************************************)
(* The pure parts of Bruteforce.                                           *)
(***************************************************************************)
\* getLastSavedState() with the test on the content inverted (>= 0 for <= 0)
getLastSavedState_Inverted(file) ==
  IF ~file.exists THEN Null
  ELSE IF file.text = <<>> \/ Geq(JSNumber(Trim(file.text)), Num(0)) THEN Null
  ELSE JSNumber(file.text)

\* getLastSavedState(): readFileSync throws on a missing file
getLastSavedState(file) ==
  IF ~file.exists THEN Null
  ELSE IF file.text = <<>> \/ Leq(JSNumber(Trim(file.text)), Num(0)) THEN Null
  ELSE JSNumber(file.text)

\* nextCode()
nextCode(code, id) ==
  MathRound(JSNumber(PadStart(JSString(Add(code, Step(id))), PadWidth, "0")))

\* attemptCode() testing the failure message before the invalid command
attemptCode_FailFirst(output, strict) ==
  IF "oemUnlockFail" \in output THEN "false"
  ELSE IF "commandInvalid" \in output THEN "CommandInvalidException"
  ELSE IF "oemUnlockSuccess" \in output THEN "true"
  ELSE IF strict THEN "UnknownOutputException"
  ELSE "false"

\* attemptCode() testing the success message before the failure message
attemptCode_SuccessFirst(output, strict) ==
  IF "commandInvalid" \in output THEN "CommandInvalidException"
  ELSE IF "oemUnlockSuccess" \in output THEN "true"
  ELSE IF "oemUnlockFail" \in output THEN "false"
  ELSE IF strict THEN "UnknownOutputException"
  ELSE "false"

\* attemptCode() without the test of throwOnUnknownErrors
attemptCode_NeverThrowsUnknown(output, strict) ==
  IF "commandInvalid" \in output THEN "CommandInvalidException"
  ELSE IF "oemUnlockFail" \in output THEN "false"
  ELSE IF "oemUnlockSuccess" \in output THEN "true"
  ELSE "false"

\* attemptCode(), from the output of the unlock command on
attemptCode(output, strict) ==
  IF "commandInvalid" \in output THEN "CommandInvalidException"
  ELSE IF "oemUnlockFail" \in output THEN "false"
  ELSE IF "oemUnlockSuccess" \in output THEN "true"
  ELSE IF strict THEN "UnknownOutputException"
  ELSE "false"

\* if (autorebootAfter) if (this.attempt - this.lastRebootAttempt >= autorebootAfter - 1)
RebootDue == autorebootAfter # 0 /\ attempt - lastRebootAttempt >= autorebootAfter - 1
\* if (saveStateAfter) if (this.attempt - this.lastSavedAttempt >= saveStateAfter - 1)
CheckpointDue == saveStateAfter # 0 /\ attempt - lastSavedAttempt >= saveStateAfter - 1

\* await exec(...) taken as a call that is not awaited: the code after it runs
\* while the command is still in flight
Awaited_NotAwaited(inflight) == inflight

\* await exec(...): the code after it runs once the command in flight is over
Awaited(inflight) == Tail(inflight)
\* exec(...): a command is handed to the device tool
Issue(inflight, command) == Append(inflight, command)

\* saveLastState(code): writeFileSync writes the code as text
saveLastState(code) == File(JSString(code))
\* saveBootloaderCode() called with the code after the one that was accepted
saveBootloaderCode_Advanced(code) ==
  File(<<"The bootloader code for the device with IMEI ">> \o Digits(imei)
       \o <<" is: ">> \o JSString(MathRound(Add(code, Step(imei)))))

\* saveBootloaderCode(code): the sentence naming the IMEI and the code
saveBootloaderCode(code) ==
  File(<<"The bootloader code for the device with IMEI ">> \o Digits(imei)
       \o <<" is: ">> \o JSString(code))

(***************************************************************************)
(* Initial state: the script has been launched and config.json read.       *)
(***************************************************************************)
\* new Bruteforce(): the fields, and nothing done yet
Constructed ==
  /\ attempt = 0
  /\ currentCode = Whole(DefaultCode)
  /\ lastSavedAttempt = 0
  /\ lastRebootAttempt = 0
  /\ codeFile = Absent
  /\ pc = "init"
  /\ phase = "none"
  /\ handlersInstalled = FALSE
  /\ cause = "none"
  /\ runs = 1
  /\ startFile = Absent
  /\ loaded = Null
  /\ candidateChosen = FALSE
  /\ firstAttempt = Null
  /\ attemptsIssued = 0
  /\ attemptedCode = Null
  /\ completed = 0
  /\ lastOutput = NoOutput
  /\ lastResult = "none"
  /\ rejected = 0
  /\ onlyFailures = TRUE
  /\ sinceReboot = 0
  /\ periodicReboots = 0
  /\ checkpointWrites = 0
  /\ lastCheckpoint = Null
  /\ resultWrites = 0
  /\ overCeiling = 0
  /\ signalsHandled = 0
  /\ outstanding = <<>>
  /\ rebootsReturned = 0
  /\ waitsReturned = 0

Init ==
  /\ imei \in 1..MaxImei
  /\ autorebootAfter \in 0..MaxInterval
  /\ saveStateAfter \in 0..MaxInterval
  /\ throwOnUnknownErrors \in BOOLEAN
  /\ savedStateFile \in InitialSavedStates
  /\ peerImei = imei
  /\ peerCode = Null
  /\ Constructed

(***************************************************************************)
(* start(), up to the first await: the checkpoint is loaded and the        *)
(* reboot into the bootloader is issued.                                   *)
(***************************************************************************)
\* start() calling bruteforce() without `await this.rebootDevice()` before it
Start_WithoutReboot ==
  /\ pc = "init"
  /\ attempt' = 0
  /\ loaded' = getLastSavedState(savedStateFile)
  /\ currentCode' =
       nextCode(IF loaded' = Null THEN Whole(DefaultCode) ELSE loaded', imei)
  /\ startFile' = savedStateFile
  /\ overCeiling' = overCeiling + (IF Geq(currentCode', Whole(Ceiling)) THEN 1 ELSE 0)
  /\ candidateChosen' = TRUE
  /\ firstAttempt' = currentCode'
  /\ attemptsIssued' = attemptsIssued + 1
  /\ attemptedCode' = currentCode'
  /\ pc' = "attempt"
  /\ outstanding' = Issue(outstanding, "attempt")
  /\ UNCHANGED <<deviceHistory, peer>>
  /\ UNCHANGED <<config, lastSavedAttempt, lastRebootAttempt, files, phase,
                 handlersInstalled, cause, runs, attemptHistory, sinceReboot,
                 periodicReboots, checkpointWrites, lastCheckpoint, resultWrites,
                 signalsHandled>>

Start ==
  /\ pc = "init"
  /\ attempt' = 0
  /\ loaded' = getLastSavedState(savedStateFile)
  /\ currentCode' = IF loaded' = Null THEN Whole(DefaultCode) ELSE loaded'
  /\ startFile' = savedStateFile
  /\ pc' = "reboot"
  /\ phase' = "initial"
  /\ outstanding' = Issue(outstanding, "reboot")
  /\ UNCHANGED <<deviceHistory, peer>>
  /\ UNCHANGED <<config, lastSavedAttempt, lastRebootAttempt, files,
                 handlersInstalled, cause, runs, candidateChosen, firstAttempt,
                 issueHistory, attemptHistory, sinceReboot, periodicReboots,
                 checkpointWrites, lastCheckpoint, resultWrites, overCeiling,
                 signalsHandled>>

(***************************************************************************)
(* rebootDevice(): `fastboot reboot bootloader` returns and                *)
(* `adb wait-for-device` is issued.                                        *)
(***************************************************************************)
RebootReturns ==
  /\ pc = "reboot"
  /\ pc' = "wait"
  /\ outstanding' = Issue(Awaited(outstanding), "wait")
  /\ rebootsReturned' = rebootsReturned + 1
  /\ UNCHANGED <<waitsReturned, peer>>
  /\ UNCHANGED <<config, fields, files, phase, handlersInstalled, cause, history>>

(***************************************************************************)
(* The rest of an iteration of bruteforce() once no reboot is due or the   *)
(* periodic reboot is over: the periodic checkpoint, the next code, the    *)
(* ceiling, and the next call of bruteforce(), which issues the attempt.   *)
(***************************************************************************)
Checkpoint ==
  IF CheckpointDue
  THEN /\ lastSavedAttempt' = attempt
       /\ savedStateFile' = saveLastState(currentCode)
       /\ checkpointWrites' = checkpointWrites + 1
       /\ lastCheckpoint' = currentCode
  ELSE UNCHANGED <<lastSavedAttempt, savedStateFile, checkpointWrites, lastCheckpoint>>

Advance ==
  LET next == nextCode(currentCode, imei)
      over == Geq(next, Whole(Ceiling))
  IN  /\ currentCode' = next
      /\ overCeiling' = overCeiling + (IF over THEN 1 ELSE 0)
      /\ IF over
         THEN /\ pc' = "exhausted"
              /\ cause' = "CodeNotFoundException"
              /\ outstanding' = Awaited(outstanding)
              /\ UNCHANGED issueHistory
         ELSE /\ attemptsIssued < MaxAttempts
              /\ pc' = "attempt"
              /\ attemptsIssued' = attemptsIssued + 1
              /\ attemptedCode' = next
              /\ outstanding' = Issue(Awaited(outstanding), "attempt")
              /\ UNCHANGED cause

(***************************************************************************)
(* `adb wait-for-device` returns.  After the initial reboot start() takes  *)
(* the first candidate and calls bruteforce(); after a periodic reboot     *)
(* bruteforce() goes on with its iteration.                                *)
(***************************************************************************)
WaitReturns ==
  /\ pc = "wait"
  /\ phase' = "none"
  /\ waitsReturned' = waitsReturned + 1
  /\ UNCHANGED <<rebootsReturned, peer>>
  /\ IF phase = "initial"
     THEN /\ currentCode' = nextCode(currentCode, imei)
          /\ overCeiling' =
               overCeiling + (IF Geq(currentCode', Whole(Ceiling)) THEN 1 ELSE 0)
          /\ candidateChosen' = TRUE
          /\ firstAttempt' = currentCode'
          /\ attemptsIssued' = attemptsIssued + 1
          /\ attemptedCode' = currentCode'
          /\ pc' = "attempt"
          /\ outstanding' = Issue(Awaited(outstanding), "attempt")
          /\ UNCHANGED <<lastSavedAttempt, savedStateFile, checkpointWrites,
                         lastCheckpoint, cause>>
     ELSE /\ Checkpoint
          /\ Advance
          /\ UNCHANGED <<candidateChosen, firstAttempt>>
  /\ UNCHANGED <<config, attempt, lastRebootAttempt, codeFile, handlersInstalled,
                 startHistory, attemptHistory, sinceReboot, periodicReboots,
                 resultWrites, signalsHandled>>

(***************************************************************************)
(* `adb oem unlock <code>` returns its output: attemptCode() classifies    *)
(* it and bruteforce() acts on the result.                                 *)
(***************************************************************************)
Throws(result) ==
  /\ pc' = "fatal"
  /\ cause' = result
  /\ outstanding' = Awaited(outstanding)
  /\ UNCHANGED <<fields, files, phase, handlersInstalled, rejected, sinceReboot,
                 periodicReboots, checkpointWrites, lastCheckpoint, resultWrites,
                 overCeiling, issueHistory>>

\* the code is saved, bruteforce() returns, start() registers the handlers
Success ==
  /\ codeFile' = saveBootloaderCode(currentCode)
  /\ resultWrites' = resultWrites + 1
  /\ handlersInstalled' = TRUE
  /\ pc' = "succeeded"
  /\ outstanding' = Awaited(outstanding)
  /\ UNCHANGED <<fields, savedStateFile, phase, cause, rejected, sinceReboot,
                 periodicReboots, checkpointWrites, lastCheckpoint, overCeiling,
                 issueHistory>>

Failure ==
  /\ rejected' = rejected + 1
  /\ IF RebootDue
     THEN /\ lastRebootAttempt' = attempt
          /\ pc' = "reboot"
          /\ phase' = "periodic"
          /\ outstanding' = Issue(Awaited(outstanding), "reboot")
          /\ sinceReboot' = 0
          /\ periodicReboots' = periodicReboots + 1
          /\ UNCHANGED <<currentCode, lastSavedAttempt, savedStateFile, cause,
                         checkpointWrites, lastCheckpoint, overCeiling,
                         issueHistory>>
     ELSE /\ sinceReboot' = sinceReboot + 1
          /\ Checkpoint
          /\ Advance
          /\ UNCHANGED <<lastRebootAttempt, phase, periodicReboots>>
  /\ UNCHANGED <<attempt, codeFile, handlersInstalled, resultWrites>>

AttemptReturns ==
  /\ pc = "attempt"
  /\ \E output \in Outputs :
       LET result == attemptCode(output, throwOnUnknownErrors)
       IN  /\ completed' = completed + 1
           /\ lastOutput' = output
           /\ lastResult' = result
           /\ onlyFailures' = (onlyFailures /\ output = {"oemUnlockFail"})
           /\ CASE result = "true" -> Success
                [] result = "false" -> Failure
                [] OTHER -> Throws(result)
  /\ UNCHANGED <<config, startHistory, candidateChosen, firstAttempt, signalsHandled,
                 deviceHistory, peer>>

(***************************************************************************)
(* The command in flight fails (tool missing, device unreachable): the     *)
(* rejection unwinds start() and the script ends.                          *)
(***************************************************************************)
ExecFails ==
  /\ pc \in InFlight
  /\ pc' = "fatal"
  /\ cause' = "EnvironmentError"
  /\ outstanding' = Awaited(outstanding)
  /\ UNCHANGED <<config, fields, files, phase, handlersInstalled, history,
                 deviceHistory, peer>>

(***************************************************************************)
(* SIGINT or SIGTERM.  The handlers are registered by start() after        *)
(* `await this.bruteforce()`: before that the signal has its default       *)
(* action and the process ends; after that the handler saves the state.    *)
(***************************************************************************)
SignalDefault ==
  /\ pc \in InFlight
  /\ ~handlersInstalled
  /\ pc' = "killed"
  /\ cause' = "signal"
  /\ outstanding' = <<>>
  /\ UNCHANGED <<config, fields, files, phase, handlersInstalled, history,
                 deviceHistory, peer>>

SignalHandled ==
  /\ pc = "succeeded"
  /\ handlersInstalled
  /\ signalsHandled < MaxSignals
  /\ signalsHandled' = signalsHandled + 1
  /\ savedStateFile' = saveLastState(currentCode)
  /\ checkpointWrites' = checkpointWrites + 1
  /\ lastCheckpoint' = currentCode
  /\ UNCHANGED <<config, fields, codeFile, control, startHistory, candidateChosen,
                 firstAttempt, issueHistory, attemptHistory, sinceReboot,
                 periodicReboots, resultWrites, overCeiling, outstanding,
                 deviceHistory, peer>>

\* run() is over and nothing is pending: the process ends
Exit ==
  /\ pc = "succeeded"
  /\ pc' = "exited"
  /\ UNCHANGED <<config, fields, files, phase, handlersInstalled, cause, history,
                 outstanding, deviceHistory, peer>>

(***************************************************************************)
(* The script is launched again, on the files the last run left, after a   *)
(* run that did not find the code.                                         *)
(***************************************************************************)
Rerun ==
  /\ pc \in {"exhausted", "fatal", "killed"}
  /\ runs < MaxRuns
  /\ runs' = runs + 1
  /\ attempt' = 0
  /\ currentCode' = Whole(DefaultCode)
  /\ lastSavedAttempt' = 0
  /\ lastRebootAttempt' = 0
  /\ pc' = "init"
  /\ phase' = "none"
  /\ handlersInstalled' = FALSE
  /\ cause' = "none"
  /\ startFile' = Absent
  /\ loaded' = Null
  /\ candidateChosen' = FALSE
  /\ firstAttempt' = Null
  /\ attemptsIssued' = 0
  /\ attemptedCode' = Null
  /\ completed' = 0
  /\ lastOutput' = NoOutput
  /\ lastResult' = "none"
  /\ rejected' = 0
  /\ onlyFailures' = TRUE
  /\ sinceReboot' = 0
  /\ periodicReboots' = 0
  /\ checkpointWrites' = 0
  /\ lastCheckpoint' = Null
  /\ resultWrites' = 0
  /\ overCeiling' = 0
  /\ signalsHandled' = 0
  /\ outstanding' = <<>>
  /\ rebootsReturned' = 0
  /\ waitsReturned' = 0
  /\ UNCHANGED <<config, files, peer>>

Next ==
  \/ Start
  \/ RebootReturns
  \/ WaitReturns
  \/ AttemptReturns
  \/ ExecFails
  \/ SignalDefault
  \/ SignalHandled
  \/ Exit
  \/ Rerun

Spec == Init /\ [][Next]_vars

TypeOK ==
  /\ pc \in {"init"} \cup InFlight \cup Terminal
  /\ currentCode.kind \in {"num", "nan"}
  /\ attemptsIssued \in 0..MaxAttempts

(***************************************************************************)
(* nextCode() on its own: the codes it gives two devices from the same     *)
(* current code, for small identities and for identities of the size       *)
(* at which Math.sqrt(imei) * 1024 grows by less than 1 from one identity  *)
(* to the next.                                                            *)
(***************************************************************************)
GeneratorIds == (1..MaxImei) \cup {65535, 65536, 1000001, 1000002}

GeneratorInit ==
  /\ imei \in GeneratorIds
  /\ peerImei \in GeneratorIds
  /\ autorebootAfter = 0
  /\ saveStateAfter = 0
  /\ throwOnUnknownErrors = FALSE
  /\ savedStateFile = Absent
  /\ peerCode = Null
  /\ Constructed

Generate ==
  /\ ~Geq(currentCode, Whole(Ceiling))
  /\ currentCode' = nextCode(currentCode, imei)
  /\ peerCode' = nextCode(currentCode, peerImei)
  /\ UNCHANGED <<config, attempt, lastSavedAttempt, lastRebootAttempt, files,
                 control, history, outstanding, deviceHistory, peerImei>>

GeneratorSpec == GeneratorInit /\ [][Generate]_vars

(***************************************************************************)
(* Properties.                                                             *)
(***************************************************************************)
\* a non-empty sequence of digits: a non-negative integer written as text
IsNaturalText(t) == t # <<>> /\ AllDigits(t)
\* the device has answered every attempt of this run with the failure message
\* and nothing has cut the run short
RejectingRun == onlyFailures /\ pc \in {"reboot", "wait", "attempt", "exhausted"}
\* an iteration of bruteforce() is over
BetweenIterations == pc \in {"attempt", "exhausted"}
\* the sentence of the result file
ResultSentence(id, code) ==
  <<"The bootloader code for the device with IMEI ">> \o Digits(id)
    \o <<" is: ">> \o JSString(code)

\* C1: once the first candidate is chosen, a run ended by SIGINT/SIGTERM has
\* written the current candidate to the checkpoint file.
C1_SignalSavesCheckpoint ==
  (pc = "killed" /\ candidateChosen) => savedStateFile = File(JSString(currentCode))

\* C2: with checkpoint interval k >= 1 and a device that rejects everything,
\* after n rejected attempts the checkpoint has been written floor(n / k) times.
C2_CheckpointCadence ==
  (saveStateAfter >= 1 /\ RejectingRun /\ BetweenIterations)
    => checkpointWrites = rejected \div saveStateAfter

\* C3: with reboot interval r >= 1 a periodic reboot happens exactly when r
\* rejected attempts have passed since the last one: never earlier (r rejected
\* attempts per reboot) and never later (fewer than r are pending once the
\* iteration is over), whatever the checkpoint interval.
C3_PeriodicReboot ==
  autorebootAfter >= 1
    => /\ periodicReboots * autorebootAfter <= rejected
       /\ BetweenIterations => sinceReboot < autorebootAfter

C5_BadCheckpointStartsFresh ==
  (pc # "init" /\ (~startFile.exists \/ ~IsNaturalText(startFile.text)))
    => /\ loaded = Null
       /\ candidateChosen => firstAttempt = nextCode(Whole(DefaultCode), imei)

\* C6: with a device that rejects everything, the run is exhausted at the first
\* nextCode call of the run whose result reaches the ceiling, start()'s call
\* included, and never with a candidate below the ceiling.
C6_ExhaustionBoundary ==
  RejectingRun
    => /\ overCeiling >= 1 => pc = "exhausted"
       /\ pc = "exhausted" => Geq(currentCode, Whole(Ceiling))

\* C7: an attempt classified Accepted ends the run in Succeeded with the result
\* file naming exactly the accepted code and no attempt issued after it; the
\* result file is written at most once in a run, and only after such an attempt.
C7_Success ==
  /\ resultWrites <= 1
  /\ codeFile.exists <=> resultWrites = 1
  /\ (completed >= 1 /\ lastOutput = {"oemUnlockSuccess"}) <=> resultWrites = 1
  /\ resultWrites = 1
       => /\ pc \in {"succeeded", "exited"}
          /\ codeFile = File(ResultSentence(imei, attemptedCode))
          /\ attemptsIssued = completed

\* the code has been found after some rejected attempts
C7_Witness ==
  /\ pc = "succeeded"
  /\ rejected >= 2
  /\ resultWrites = 1
  /\ codeFile = File(ResultSentence(imei, attemptedCode))

\* C8: when the first attempt is answered with the invalid-command message the
\* run is over with CommandInvalidException, no second attempt is issued and
\* neither file is written, whatever the reboot and checkpoint intervals.
C8_UnsupportedCommand ==
  (completed = 1 /\ "commandInvalid" \in lastOutput)
    => /\ pc = "fatal"
       /\ cause = "CommandInvalidException"
       /\ attemptsIssued = 1
       /\ checkpointWrites = 0
       /\ resultWrites = 0
       /\ periodicReboots = 0
       /\ savedStateFile = startFile
       /\ ~codeFile.exists

\* the first attempt was answered with all three messages at once, with both
\* intervals enabled
C8_Witness ==
  /\ completed = 1
  /\ lastOutput = Fragments
  /\ autorebootAfter = 1
  /\ saveStateAfter = 1
  /\ pc = "fatal"

\* C9: the outcome of attemptCode follows the priority Unsupported, Rejected,
\* Accepted, Ambiguous over the fragments the output contains.
C9_ClassifierPriority ==
  completed >= 1
    => /\ "commandInvalid" \in lastOutput => lastResult = "CommandInvalidException"
       /\ ("commandInvalid" \notin lastOutput /\ "oemUnlockFail" \in lastOutput)
            => lastResult = "false"
       /\ lastOutput = {"oemUnlockSuccess"} => lastResult = "true"
       /\ lastOutput = {}
            => lastResult \in {"false", "UnknownOutputException"}
       /\ lastResult \in {"CommandInvalidException", "false", "true",
                          "UnknownOutputException"}

\* an output with the failure and the success message was taken as a failure
C9_Witness ==
  /\ completed >= 1
  /\ lastOutput = {"oemUnlockFail", "oemUnlockSuccess"}
  /\ lastResult = "false"

\* C10: an output with none of the known fragments, under the strict flag,
\* ends the run with UnknownOutputException without another attempt and
\* without writing a file; otherwise the step is the one of a rejected attempt.
C10_AmbiguousOutput ==
  [][(completed' = completed + 1 /\ lastOutput' = {})
       => IF throwOnUnknownErrors
          THEN /\ pc' = "fatal"
               /\ cause' = "UnknownOutputException"
               /\ UNCHANGED <<issueHistory, files, fields, checkpointWrites,
                              resultWrites, periodicReboots, rejected>>
          ELSE /\ lastResult' = "false"
               /\ Failure]_vars

\* an ambiguous output was absorbed and followed by a reboot and a checkpoint
C10_Witness ==
  /\ ~throwOnUnknownErrors
  /\ lastOutput = {}
  /\ lastResult = "false"
  /\ pc = "attempt"
  /\ periodicReboots >= 1
  /\ checkpointWrites >= 1

\* the run has ended in Succeeded, Exhausted or FatalError
Ended == pc \in {"succeeded", "exhausted", "fatal"}

RECURSIVE ReachesCeiling(_, _, _)
\* repeated nextCode calls take the code to the ceiling within n calls
ReachesCeiling(code, id, n) ==
  \/ Geq(code, Whole(Ceiling))
  \/ n > 0 /\ ReachesCeiling(nextCode(code, id), id, n - 1)

\* C12: a run in which every device call returns and every attempt is rejected
\* ends in Exhausted, whatever the checkpoint file held: while it searches, the
\* candidate is a finite number of nextCode calls (at most MaxAttempts, with
\* the model's ceiling) away from the ceiling.
C12_RejectingRunExhausts ==
  (RejectingRun /\ candidateChosen /\ pc # "exhausted")
    => ReachesCeiling(currentCode, imei, MaxAttempts)

\* a step of a run in which nextCode assigns currentCode: the first candidate
\* of start() or the next candidate of an iteration of bruteforce()
NextCodeAssigned ==
  /\ runs' = runs
  /\ \/ attemptsIssued' = attemptsIssued + 1
     \/ pc # "exhausted" /\ pc' = "exhausted"

\* C13: every value nextCode assigns to currentCode, in start() and in each
\* iteration, is >= the value it replaces.
C13_MonotonicCandidate ==
  [][NextCodeAssigned => Geq(currentCode', currentCode)]_vars

\* C14: in every run the reboot into the bootloader and the wait for the
\* device that follows it have returned before the first attempt is issued;
\* a run that ends before the wait has returned ends with no attempt issued
\* and neither file written (in FatalError, when a command failed).
C14_InitialRebootOrdering ==
  /\ waitsReturned <= rebootsReturned
  /\ attemptsIssued >= 1 => (rebootsReturned >= 1 /\ waitsReturned >= 1)
  /\ (pc # "init" /\ waitsReturned = 0)
       => /\ pc \in {"reboot", "wait", "fatal", "killed"}
          /\ pc = "fatal" => cause = "EnvironmentError"
          /\ attemptsIssued = 0
          /\ checkpointWrites = 0
          /\ resultWrites = 0
          /\ savedStateFile = startFile
          /\ ~codeFile.exists

\* the first attempt of a second run is in flight, after that run's own reboot
\* and wait
C14_Witness ==
  /\ runs = 2
  /\ pc = "attempt"
  /\ attemptsIssued = 1
  /\ rebootsReturned = 1
  /\ waitsReturned = 1

\* C15: at most one device command (attempt, reboot or wait) is in flight, and
\* it is the one the script is waiting for; none is in flight otherwise.
C15_SingleOutstanding ==
  /\ Len(outstanding) <= 1
  /\ pc \in InFlight => outstanding = <<pc>>
  /\ pc \notin InFlight => outstanding = <<>>

\* a periodic reboot is in flight after two attempts have returned
C15_Witness ==
  /\ pc = "reboot"
  /\ phase = "periodic"
  /\ completed >= 2
  /\ outstanding = <<"reboot">>

\* C16: two different device identities get different codes from nextCode
\* applied to the same current code.
C16_DistinctSteps ==
  (imei # peerImei /\ peerCode # Null) => peerCode # currentCode

\* C17: in the search loop the attempt counter is the number of rejected
\* attempts of the run, and neither lastSavedAttempt nor lastRebootAttempt
\* is above it.
C17_AttemptCounter ==
  candidateChosen
    => /\ attempt = rejected
       /\ lastSavedAttempt <= attempt
       /\ lastRebootAttempt <= attempt

\* C18: no code handed to attemptCode, the first candidate of a resumed run
\* included, is at or above the ceiling.
C18_AttemptsBelowCeiling ==
  attemptsIssued >= 1 => ~Geq(attemptedCode, Whole(Ceiling))

\* a step in which bruteforce() writes its periodic checkpoint
PeriodicCheckpoint ==
  /\ runs' = runs
  /\ pc \in InFlight
  /\ checkpointWrites' = checkpointWrites + 1

NoUsableCheckpoint == ~startFile.exists \/ ~IsNaturalText(startFile.text)

\* C20: a run that finds no usable checkpoint submits nextCode of the default
\* starting code first, and no run ever submits the default starting code.
C20_FreshFirstCandidate ==
  /\ (candidateChosen /\ NoUsableCheckpoint)
       => firstAttempt = nextCode(Whole(DefaultCode), imei)
  /\ attemptsIssued >= 1 => attemptedCode # Whole(DefaultCode)
=============================================================================
